---- MODULE Spec2Model ----
(***************************************************************************)
(* Model of the Baynance ticker ingestion path: Binance.ticker_handler,    *)
(* Binance.save_ticker, Binance.fetch_tokens (src/src/exchange.py) and     *)
(* SQLiteDB.session / log / insert_ticker (src/src/sqlite_db.py).          *)
(*                                                                         *)
(* Conventions                                                             *)
(*  - a Python str is a tuple of one-character strings, so that slicing    *)
(*    (symbol[-4:]) and float() parsing are computed, not assumed;         *)
(*  - a Python dict is a function whose DOMAIN is its key set; a lookup of *)
(*    a missing key is a KeyError;                                         *)
(*  - an Optional value is <<>> (None) or <<v>>;                           *)
(*  - a float price is held in hundredths (float("100.05") = 10005); the   *)
(*    prices the model delivers are chosen so that the double-precision    *)
(*    value of abs(c / l - 1) > 0.001 agrees with the exact comparison;    *)
(*  - a datetime is held as its epoch milliseconds.                        *)
(***************************************************************************)
EXTENDS Integers, Sequences, FiniteSets, TLC

\* ------------------------------------------------------------------ bounds
\* Frames handed to ticker_handler plus fetch_tokens calls in one behaviour
\* of Spec (interleaved callbacks) and of SeqSpec (one frame at a time).
MaxEvents == 2
MaxSeqEvents == 3
\* Depth at which the interpreter stops the session() -> log() -> session()
\* recursion with a RecursionError (scaled down from CPython's limit).
RecursionLimit == 1
MaxCalls == 2
MaxStoreEvents == 3

\* --------------------------------------------------------------- constants
\* 0.001 of exchange.py:159, as the denominator of the relative change.
ThresholdInv == 1000
\* symbol[-4:] of exchange.py:214.
SuffixLen == 4

\* ------------------------------------------------------------------ values
None == <<>>
Some(v) == <<v>>
IsNone(x) == x = <<>>
Val(x) == x[1]

BTCUSDT == <<"B", "T", "C", "U", "S", "D", "T">>
ETHUSDT == <<"E", "T", "H", "U", "S", "D", "T">>
ETHBTC == <<"E", "T", "H", "B", "T", "C">>
USDT == <<"U", "S", "D", "T">>

\* The instrument list returned by client.get_all_tickers().
Universe == {BTCUSDT, ETHUSDT, ETHBTC}

\* The two ticker subscriptions of the program, one callback each.
Feeds == {"spot", "futures"}
OtherFeed(f) == IF f = "spot" THEN "futures" ELSE "spot"

Abs(x) == IF x < 0 THEN -x ELSE x

\* ------------------------------------------------------------ float(str)
DigitVal(ch) ==
    CASE ch = "0" -> 0 [] ch = "1" -> 1 [] ch = "2" -> 2 [] ch = "3" -> 3
      [] ch = "4" -> 4 [] ch = "5" -> 5 [] ch = "6" -> 6 [] ch = "7" -> 7
      [] ch = "8" -> 8 [] ch = "9" -> 9 [] OTHER -> -1

RECURSIVE DigitsVal(_)
\* Value of a digit string, -1 when a character is not a digit.
DigitsVal(str) ==
    IF str = <<>> THEN 0
    ELSE LET d == DigitVal(str[Len(str)])
             r == DigitsVal(SubSeq(str, 1, Len(str) - 1))
         IN IF d < 0 \/ r < 0 THEN -1 ELSE 10 * r + d

\* float(s) for the wire format "<digits>.<two digits>", in hundredths;
\* None stands for the ValueError float() raises on any other text.
float(str) ==
    IF Len(str) < 4 \/ str[Len(str) - 2] # "." THEN None
    ELSE LET whole == DigitsVal(SubSeq(str, 1, Len(str) - 3))
             frac == DigitsVal(SubSeq(str, Len(str) - 1, Len(str)))
         IN IF whole < 0 \/ frac < 0 THEN None ELSE Some(100 * whole + frac)

\* ------------------------------------------------------------ TokenFutures
EmptyPriceInfo ==
    [open |-> None, close |-> None, high |-> None, low |-> None,
     volume |-> None, quote_asset_volume |-> None, timestamp |-> None]

\* long_info and short_info of a new record.
EmptyPositionInfo ==
    [target |-> None, amount |-> None, target_hit |-> FALSE,
     filter |-> [MT |-> FALSE, NY |-> FALSE, VT |-> FALSE]]

TokenFutures(symbol) ==
    [symbol |-> symbol, leverage |-> 0, isolated |-> FALSE,
     price_info |-> EmptyPriceInfo,
     long_info |-> EmptyPositionInfo, short_info |-> EmptyPositionInfo]

\* str[:n] of Python, the first characters instead of the last.
Prefix(str, n) == IF Len(str) <= n THEN str ELSE SubSeq(str, 1, n)

\* str[-n:] of Python: the whole string when it is shorter than n.
Suffix(str, n) == IF Len(str) <= n THEN str ELSE SubSeq(str, Len(str) - n + 1, Len(str))

\* The dict comprehension of fetch_tokens.
fetch_tokens(universe) ==
    [sym \in {u \in universe : Suffix(u, SuffixLen) = USDT} |-> TokenFutures(sym)]

\* ---------------------------------------------------------------- messages
P0 == <<"0", ".", "0", "0">>
P10000 == <<"1", "0", "0", ".", "0", "0">>
P10005 == <<"1", "0", "0", ".", "0", "5">>
P10011 == <<"1", "0", "0", ".", "1", "1">>
P10150 == <<"1", "0", "1", ".", "5", "0">>
OpenStr == <<"9", "9", ".", "0", "0">>
HighStr == <<"1", "0", "2", ".", "0", "0">>
LowStr == <<"9", "8", ".", "0", "0">>
VolStr == <<"1", "0", ".", "0", "0">>
QuoteStr == <<"1", "0", "0", "0", ".", "0", "0">>

\* Event times (field E, epoch milliseconds) of the frames delivered.
Times == {1000, 2000}

\* One mini-ticker / ticker payload as the websocket library hands it over.
Payload(s, c, E) ==
    [E |-> E, s |-> s, c |-> c, o |-> OpenStr, h |-> HighStr, l |-> LowStr,
     v |-> VolStr, q |-> QuoteStr]

\* dict without key k.
Drop(m, k) == [x \in DOMAIN m \ {k} |-> m[x]]

\* The well-formed payloads the model delivers.
WellFormedPayloads ==
    {Payload(BTCUSDT, P0, 1000), Payload(BTCUSDT, P10000, 1000),
     Payload(BTCUSDT, P10005, 2000), Payload(BTCUSDT, P10011, 2000),
     Payload(BTCUSDT, P10150, 1000),
     Payload(ETHUSDT, P10000, 1000), Payload(ETHBTC, P10150, 2000)}

\* The payloads the spot and the futures feed deliver in Spec, and those the
\* futures feed delivers in SeqSpec (the spot feed delivers all of them there).
SpotPayloads ==
    {Payload(BTCUSDT, P0, 1000), Payload(BTCUSDT, P10000, 1000),
     Payload(BTCUSDT, P10011, 2000),
     Payload(ETHUSDT, P10000, 1000), Payload(ETHBTC, P10150, 2000)}
FuturesPayloads ==
    {Payload(BTCUSDT, P10000, 1000), Payload(ETHBTC, P10150, 2000)}
SeqFuturesPayloads ==
    {Payload(BTCUSDT, P10005, 2000), Payload(BTCUSDT, P10150, 1000),
     Payload(ETHUSDT, P10000, 1000)}

\* Payloads that lack a field ticker_handler or insert_ticker reads.
MalformedPayloads ==
    {Drop(Payload(ETHBTC, P10150, 2000), k) : k \in {"c", "E"}}

\* The futures callbacks receive the payload under the key "data".
Wrap(feed, payload) == IF feed = "futures" THEN [data |-> payload] ELSE payload

WellFormedMsgs(feed) ==
    {Wrap(feed, p) : p \in IF feed = "futures" THEN FuturesPayloads ELSE SpotPayloads}
SeqMsgs(feed) ==
    {Wrap(feed, p) : p \in IF feed = "futures" THEN SeqFuturesPayloads
                            ELSE WellFormedPayloads}

\* A frame is malformed for a feed when a field is missing or when it has the
\* other feed's envelope.
MalformedMsgs(feed) ==
    {Wrap(feed, p) : p \in IF feed = "futures"
                            THEN {Drop(Payload(ETHBTC, P10150, 2000), "c")}
                            ELSE MalformedPayloads}
        \cup {Wrap(OtherFeed(feed), Payload(BTCUSDT, P10000, 1000))}

Msgs(feed) == WellFormedMsgs(feed) \cup MalformedMsgs(feed)

NoMsg == [none |-> TRUE]

\* ----------------------------------------------------------------- storage
\* The database as the code sees it: the two tables, the number of sessions
\* opened and not yet closed, and whether a session still holds SQLite's
\* write lock (taken by a flush, given up by commit, rollback or close).
\* A commit attempted while another session holds the lock fails with an
\* OperationalError ("database is locked").

\* What the store does to the commits of one call: the first n commits
\* (the write itself, then the log writes of the error path) violate a
\* constraint, the next one meets `then`.
FaultPatterns == [n : 0..(RecursionLimit + 1), then : {"none", "operational"}]
NoFault == [n |-> 0, then |-> "none"]
FaultAt(p, i) == IF i < p.n THEN "integrity" ELSE p.then

RequiredKeys == {"E", "s", "c", "o", "h", "l", "v", "q"}
FloatKeys == {"c", "o", "h", "l", "v", "q"}

\* The exception raised while building self.Ticker(...) from data.
TickerError(data) ==
    IF ~(RequiredKeys \subseteq DOMAIN data) THEN "KeyError"
    ELSE IF \E k \in FloatKeys : IsNone(float(data[k])) THEN "ValueError"
    ELSE "none"

\* self.Ticker(timestamp=..., symbol=..., close=..., ...)
Ticker(data) ==
    [timestamp |-> data.E, symbol |-> data.s, close |-> Val(float(data.c)),
     open |-> Val(float(data.o)), high |-> Val(float(data.h)),
     low |-> Val(float(data.l)), volume |-> Val(float(data.v)),
     quote_asset_volume |-> Val(float(data.q))]

\* self.Log(level=..., msg=..., datetime=now); the clock value is left out.
Log(level, msg) == [level |-> level, msg |-> msg]

SessionOpen(db) == [db EXCEPT !.open = @ + 1]
SessionRollback(db) == [db EXCEPT !.lock = FALSE]
\* session() without its finally clause: the session is never closed.
SessionCloseMissing(db, held) == db

\* session.close() of the finally clause; held: this session holds the lock.
SessionClose(db, held) ==
    [db EXCEPT !.open = @ - 1, !.lock = IF held THEN FALSE ELSE @]

AddRow(db, table, row) ==
    IF table = "tickers" THEN [db EXCEPT !.tickers = Append(@, row)]
    ELSE [db EXCEPT !.logs = Append(@, row)]

RECURSIVE session(_, _, _, _, _)
RECURSIVE log(_, _, _, _, _)

\* `with self.session() as session: session.add(row)` entered at call depth
\* `depth`, until the with statement is left: the resulting database and the
\* exception that leaves the with statement ("none" when it is suppressed or
\* there is none).
session(db, table, row, p, depth) ==
    LET opened == SessionOpen(db)
        fault == IF db.lock THEN "locked" ELSE FaultAt(p, depth)
    IN CASE fault = "none" ->
              [db |-> SessionClose(AddRow(opened, table, row), FALSE), exc |-> "none"]
         [] fault = "integrity" ->
              LET rolled == SessionRollback([opened EXCEPT !.lock = TRUE])
                  r == log(rolled, "ERROR", "IntegrityError", p, depth + 1)
              IN [db |-> SessionClose(r.db, FALSE), exc |-> r.exc]
         [] fault = "operational" ->
              [db |-> SessionClose([opened EXCEPT !.lock = TRUE], TRUE),
               exc |-> "OperationalError"]
         [] OTHER ->
              [db |-> SessionClose(opened, FALSE), exc |-> "OperationalError"]

\* SQLiteDB.log; the interpreter refuses the call beyond RecursionLimit.
log(db, level, msg, p, depth) ==
    IF depth > RecursionLimit THEN [db |-> db, exc |-> "RecursionError"]
    ELSE session(db, "logs", Log(level, msg), p, depth)

\* SQLiteDB.insert_ticker
insert_ticker(db, data, p) ==
    IF TickerError(data) # "none"
    THEN [db |-> SessionClose(SessionOpen(db), FALSE), exc |-> TickerError(data)]
    ELSE session(db, "tickers", Ticker(data), p, 0)

\* What the SELECT of query_ticker may do: answer, or raise.
QueryOutcomes == {"ok", "OperationalError"}

\* SQLiteDB.query_ticker: the rows of the symbol with start <= timestamp <=
\* end, in the order of the table scan (by id: the query has no ORDER BY),
\* returned from inside the with block; an exception of the SELECT passes
\* through session(), which closes the session on both paths.
query_ticker(db, symbol, start, end, outcome) ==
    LET opened == SessionOpen(db)
        rows == SelectSeq(opened.tickers,
                          LAMBDA row : /\ row.symbol = symbol
                                       /\ row.timestamp >= start
                                       /\ row.timestamp <= end)
    IN IF outcome = "ok"
       THEN [db |-> SessionClose(opened, FALSE), exc |-> "none", value |-> Some(rows)]
       ELSE [db |-> SessionClose(opened, FALSE), exc |-> outcome, value |-> None]

\* ------------------------------------------------------------ save_ticker
\* A save_ticker that refreshes the prices and keeps the earlier timestamp.
save_ticker_stale(toks, msg) ==
    [toks EXCEPT ![msg.s].price_info =
        [open |-> float(msg.o), close |-> float(msg.c), high |-> float(msg.h),
         low |-> float(msg.l), volume |-> float(msg.v),
         quote_asset_volume |-> float(msg.q), timestamp |-> @.timestamp]]

\* A save_ticker that takes the close from the open field of the frame.
save_ticker_open(toks, msg) ==
    [toks EXCEPT ![msg.s].price_info =
        [open |-> float(msg.o), close |-> float(msg.o), high |-> float(msg.h),
         low |-> float(msg.l), volume |-> float(msg.v),
         quote_asset_volume |-> float(msg.q), timestamp |-> Some(msg.E)]]

\* A save_ticker that refuses to move the timestamp backwards.
save_ticker_monotonic(toks, msg) ==
    [toks EXCEPT ![msg.s].price_info =
        [open |-> float(msg.o), close |-> float(msg.c), high |-> float(msg.h),
         low |-> float(msg.l), volume |-> float(msg.v),
         quote_asset_volume |-> float(msg.q),
         timestamp |-> IF ~IsNone(@.timestamp) /\ Val(@.timestamp) > msg.E
                       THEN @.timestamp ELSE Some(msg.E)]]

save_ticker(toks, msg) ==
    [toks EXCEPT ![msg.s].price_info =
        [open |-> float(msg.o), close |-> float(msg.c), high |-> float(msg.h),
         low |-> float(msg.l), volume |-> float(msg.v),
         quote_asset_volume |-> float(msg.q), timestamp |-> Some(msg.E)]]

\* self.tokens[symbol].price_info["close"]: one entry per symbol, whichever
\* feed the frame came from.
LastClosePrice(toks, symbol) == toks[symbol].price_info.close

\* The comparison without abs(): a fall of the price is never significant.
ExceedsNoAbs(close_price, last_close_price) ==
    (close_price - last_close_price) * ThresholdInv > last_close_price

\* abs(close_price / last_close_price - 1) > 0.001 for last_close_price > 0
Exceeds(close_price, last_close_price) ==
    Abs(close_price - last_close_price) * ThresholdInv > last_close_price

\* ================================================================ logging
\* The numeric value of a level name (logging.DEBUG .. logging.CRITICAL).
Levels == {"DEBUG", "INFO", "WARNING", "ERROR", "CRITICAL"}

levelno(levelname) ==
    CASE levelname = "DEBUG" -> 10
      [] levelname = "INFO" -> 20
      [] levelname = "WARNING" -> 30
      [] levelname = "ERROR" -> 40
      [] levelname = "CRITICAL" -> 50

\* What chat_postMessage may do: deliver, or raise SlackApiError.
SlackOutcomes == {"ok", "SlackApiError"}

\* SQLiteHandler.emit: database.log(levelname, msg, created), uncaught.
SQLiteHandlerEmit(db, levelname, text) == log(db, levelname, text, NoFault, 0)

\* A SlackHandler.emit without its level test: every record is posted.
SlackHandlerEmitAll(slack, levelname, text, outcome) ==
    [slack |-> Append(slack, [level |-> levelname, text |-> text,
                              delivered |-> outcome = "ok"]),
     exc |-> "none"]

\* SlackHandler.emit: nothing below INFO; SlackApiError is caught and printed.
SlackHandlerEmit(slack, levelname, text, outcome) ==
    IF levelno(levelname) < levelno("INFO")
    THEN [slack |-> slack, exc |-> "none"]
    ELSE [slack |-> Append(slack, [level |-> levelname, text |-> text,
                                   delivered |-> outcome = "ok"]),
          exc |-> IF outcome \in {"ok", "SlackApiError"} THEN "none" ELSE outcome]

\* BinanceLogger: level DEBUG, the SQLite handler first, then the Slack one.
\* A handler that raises ends the call: the later handler is not reached.
BinanceLogger(db, slack, levelname, text, outcome) ==
    IF levelno(levelname) < levelno("DEBUG")
    THEN [db |-> db, slack |-> slack, exc |-> "none"]
    ELSE LET stored == SQLiteHandlerEmit(db, levelname, text)
         IN IF stored.exc # "none"
            THEN [db |-> stored.db, slack |-> slack, exc |-> stored.exc]
            ELSE LET posted == SlackHandlerEmit(slack, levelname, text, outcome)
                 IN [db |-> stored.db, slack |-> posted.slack, exc |-> posted.exc]

\* ====================================================== websocket manager
AlreadyStarted == "Websocket manager already started"
Started == "Websocket manager started"

\* threaded_websocket_manager.start(): a thread can be started only once.
ThreadStart(started) == IF started THEN "RuntimeError" ELSE "none"

\* A start_websocket_manager without its except clause.
start_websocket_manager_uncaught(started, db, slack, o1, o2) ==
    IF ThreadStart(started) # "none"
    THEN [started |-> TRUE, db |-> db, slack |-> slack, exc |-> ThreadStart(started)]
    ELSE LET i == BinanceLogger(db, slack, "INFO", Started, o2)
         IN [started |-> TRUE, db |-> i.db, slack |-> i.slack, exc |-> i.exc]

\* Binance.start_websocket_manager; o1, o2: what Slack does with the two records.
start_websocket_manager(started, db, slack, o1, o2) ==
    LET w == IF ThreadStart(started) = "RuntimeError"
             THEN BinanceLogger(db, slack, "WARNING", AlreadyStarted, o1)
             ELSE [db |-> db, slack |-> slack, exc |-> "none"]
    IN IF w.exc # "none"
       THEN [started |-> TRUE, db |-> w.db, slack |-> w.slack, exc |-> w.exc]
       ELSE LET i == BinanceLogger(w.db, w.slack, "INFO", Started, o2)
            IN [started |-> TRUE, db |-> i.db, slack |-> i.slack, exc |-> i.exc]

\* The streams start_futures_ticker_socket registers for a list of symbols.
Streams(symbols) == {[symbol |-> sym, stream |-> "ticker"] : sym \in symbols}

\* ========================================================= trading client
\* The attributes a FuturesClient has: those of Client (the credentials);
\* FuturesClient.__init__ adds none.
FuturesClientAttrs == {"API_KEY", "API_SECRET"}

\* What futures_create_order may do: place the order, or raise the API error.
OrderOutcomes == {"ok", "BinanceAPIException"}

CreateOrderRequest(symbol, quantity, price) ==
    [symbol |-> symbol, side |-> "BUY", type |-> "LIMIT", timeInForce |-> "GTC",
     quantity |-> quantity, price |-> price]

\* FuturesClient.limit_buy_order: evaluates self.database, then sends the
\* request and returns its result.
limit_buy_order(attrs, symbol, quantity, price, outcome) ==
    IF "database" \notin attrs
    THEN [requests |-> << >>, exc |-> "AttributeError", value |-> None]
    ELSE LET req == CreateOrderRequest(symbol, quantity, price)
         IN IF outcome = "ok"
            THEN [requests |-> <<req>>, exc |-> "none", value |-> Some(req)]
            ELSE [requests |-> <<req>>, exc |-> outcome, value |-> None]

\* How a call from the main thread ended: op, its exception, its value.
NoCall == [op |-> "none", args |-> << >>, exc |-> "none", value |-> None]
CallEnded(op, args, exc, value) == [op |-> op, args |-> args, exc |-> exc, value |-> value]

\* =================================================================== state
VARIABLES
    tokens,        \* Binance.tokens: symbol -> TokenFutures
    tickers,       \* rows of the tickers table, in insertion (id) order
    logs,          \* rows of the logs table, in insertion (id) order
    openSessions,  \* sessions opened and not yet closed
    writeLock,     \* a session still holds the database write lock
    pc,            \* per callback: the line of ticker_handler it is at
    msg,           \* per callback: the local msg of ticker_handler
    last,          \* per callback: the local last_close_price
    result,        \* per callback: how its latest invocation ended
    history,       \* the events so far, in order: frames received and
                   \* fetch_tokens calls (SeqSpec records each frame's
                   \* content, Spec only that a frame was received)
    failedWrites,  \* the tickers writes that stored no row: the symbol, the
                   \* number of rows the table had then, the close of the
                   \* frame and the exception insert_ticker raised, if any
    mainPc,        \* the line main() is at
    wsStarted,     \* threaded_websocket_manager.start() has been called
    subscriptions, \* the streams registered with the websocket manager
    orders,        \* the create-order requests sent to the exchange
    slackCalls,    \* the chat_postMessage calls made, in order
    callResult,    \* how the latest call from the main thread ended
    calls,         \* the number of calls made besides those of main()
    queryResult    \* what the latest query_ticker call returned

vars ==
    <<tokens, tickers, logs, openSessions, writeLock, pc, msg, last, result,
      history, failedWrites, mainPc, wsStarted, subscriptions, orders,
      slackCalls, callResult, calls, queryResult>>

\* What the callbacks and fetch_tokens never touch.
mainVars ==
    <<mainPc, wsStarted, subscriptions, orders, slackCalls, callResult, calls,
      queryResult>>

\* What main(), the logger and the trading client never touch.
handlerVars == <<pc, msg, last, result, history, failedWrites>>

DB == [tickers |-> tickers, logs |-> logs, open |-> openSessions, lock |-> writeLock]

\* Binance.__init__ : empty registry; SQLiteDB on an empty database.
Init ==
    /\ tokens = << >>
    /\ tickers = << >>
    /\ logs = << >>
    /\ openSessions = 0
    /\ writeLock = FALSE
    /\ pc = [t \in Feeds |-> "idle"]
    /\ msg = [t \in Feeds |-> NoMsg]
    /\ last = [t \in Feeds |-> None]
    /\ result = [t \in Feeds |-> "none"]
    /\ history = << >>
    /\ failedWrites = {}
    /\ mainPc = "fetch_tokens"
    /\ wsStarted = FALSE
    /\ subscriptions = {}
    /\ orders = << >>
    /\ slackCalls = << >>
    /\ callResult = NoCall
    /\ calls = 0
    /\ queryResult = None

AllIdle == \A t \in Feeds : pc[t] = "idle"

\* ticker_handler is left, by return ("returned") or by the exception exc.
Leave(t, exc) ==
    /\ pc' = [pc EXCEPT ![t] = "idle"]
    /\ msg' = [msg EXCEPT ![t] = NoMsg]
    /\ last' = [last EXCEPT ![t] = None]
    /\ result' = [result EXCEPT ![t] = exc]

Goto(t, line) ==
    /\ pc' = [pc EXCEPT ![t] = line]
    /\ UNCHANGED result

FrameEvent(t, m) == [kind |-> "frame", feed |-> t, msg |-> m]
SomeFrame == [kind |-> "frame"]
FetchEvent == [kind |-> "fetch"]

\* The library calls the callback of feed t with frame m; ev is recorded.
Receive(t, m, ev, bound) ==
    /\ pc[t] = "idle"
    /\ Len(history) < bound
    /\ pc' = [pc EXCEPT ![t] = "lookup"]
    /\ msg' = [msg EXCEPT ![t] = m]
    /\ result' = [result EXCEPT ![t] = "running"]
    /\ history' = Append(history, ev)
    /\ UNCHANGED <<tokens, tickers, logs, openSessions, writeLock, last, failedWrites>>
    /\ UNCHANGED mainVars

\* exchange.py:150-154  unwrap, read the symbol, test the registry.
Lookup(t) ==
    /\ pc[t] = "lookup"
    /\ LET m == msg[t]
           is_futures == t = "futures"
       IN IF is_futures /\ "data" \notin DOMAIN m
          THEN Leave(t, "KeyError")
          ELSE LET inner == IF is_futures THEN m.data ELSE m
               IN IF "s" \notin DOMAIN inner
                  THEN Leave(t, "KeyError")
                  ELSE /\ msg' = [msg EXCEPT ![t] = inner]
                       /\ Goto(t, IF inner.s \in DOMAIN tokens THEN "compare" ELSE "create")
                       /\ UNCHANGED last
    /\ UNCHANGED <<tokens, tickers, logs, openSessions, writeLock, history, failedWrites>>
    /\ UNCHANGED mainVars

\* exchange.py:155  self.tokens[symbol] = TokenFutures(symbol, self.client)
Create(t) ==
    /\ pc[t] = "create"
    /\ LET symbol == msg[t].s
       IN tokens' = [s \in DOMAIN tokens \cup {symbol} |->
                        IF s = symbol THEN TokenFutures(symbol) ELSE tokens[s]]
    /\ Goto(t, "compare")
    /\ UNCHANGED <<tickers, logs, openSessions, writeLock, msg, last, history, failedWrites>>
    /\ UNCHANGED mainVars

\* A comparison that refreshes the in-memory record from the frame before
\* it returns on a change within the threshold.
CompareRefreshing(t) ==
    /\ pc[t] = "compare"
    /\ LET m == msg[t]
       IN IF "c" \notin DOMAIN m THEN Leave(t, "KeyError") /\ UNCHANGED tokens
          ELSE IF IsNone(float(m.c)) THEN Leave(t, "ValueError") /\ UNCHANGED tokens
          ELSE IF m.s \notin DOMAIN tokens THEN Leave(t, "KeyError") /\ UNCHANGED tokens
          ELSE LET close_price == Val(float(m.c))
                   last_close_price == LastClosePrice(tokens, m.s)
               IN IF IsNone(last_close_price) \/
                     (Val(last_close_price) # 0 /\ Exceeds(close_price, Val(last_close_price)))
                  THEN /\ Goto(t, "insert")
                       /\ last' = [last EXCEPT ![t] = last_close_price]
                       /\ UNCHANGED <<msg, tokens>>
                  ELSE IF Val(last_close_price) = 0
                  THEN Leave(t, "ZeroDivisionError") /\ UNCHANGED tokens
                  ELSE Leave(t, "returned") /\ tokens' = save_ticker(tokens, m)
    /\ UNCHANGED <<tickers, logs, openSessions, writeLock, history, failedWrites>>
    /\ UNCHANGED mainVars

\* exchange.py:156-159  read the stored close and decide.
Compare(t) ==
    /\ pc[t] = "compare"
    /\ LET m == msg[t]
       IN IF "c" \notin DOMAIN m THEN Leave(t, "KeyError")
          ELSE IF IsNone(float(m.c)) THEN Leave(t, "ValueError")
          ELSE IF m.s \notin DOMAIN tokens THEN Leave(t, "KeyError")
          ELSE LET close_price == Val(float(m.c))
                   last_close_price == LastClosePrice(tokens, m.s)
               IN IF IsNone(last_close_price)
                  THEN /\ Goto(t, "insert")
                       /\ last' = [last EXCEPT ![t] = last_close_price]
                       /\ UNCHANGED msg
                  ELSE IF Val(last_close_price) = 0
                  THEN Leave(t, "ZeroDivisionError")
                  ELSE IF Exceeds(close_price, Val(last_close_price))
                  THEN /\ Goto(t, "insert")
                       /\ last' = [last EXCEPT ![t] = last_close_price]
                       /\ UNCHANGED msg
                  ELSE Leave(t, "returned")
    /\ UNCHANGED <<tokens, tickers, logs, openSessions, writeLock, history, failedWrites>>
    /\ UNCHANGED mainVars

\* exchange.py:160  self.database.insert_ticker(msg); p: what the store does.
Insert(t, p) ==
    /\ pc[t] = "insert"
    /\ LET r == insert_ticker(DB, msg[t], p)
       IN /\ tickers' = r.db.tickers
          /\ logs' = r.db.logs
          /\ openSessions' = r.db.open
          /\ writeLock' = r.db.lock
          /\ failedWrites' =
                IF TickerError(msg[t]) = "none" /\ r.db.tickers = tickers
                THEN failedWrites \cup {[symbol |-> msg[t].s, rows |-> Len(tickers),
                                          close |-> float(msg[t].c), exc |-> r.exc]}
                ELSE failedWrites
          /\ IF r.exc = "none"
             THEN Goto(t, "save") /\ UNCHANGED <<msg, last>>
             ELSE Leave(t, r.exc)
    /\ UNCHANGED <<tokens, history>>
    /\ UNCHANGED mainVars

\* exchange.py:161  self.save_ticker(msg)
Save(t) ==
    /\ pc[t] = "save"
    /\ IF msg[t].s \in DOMAIN tokens
       THEN tokens' = save_ticker(tokens, msg[t]) /\ Leave(t, "returned")
       ELSE UNCHANGED tokens /\ Leave(t, "KeyError")
    /\ UNCHANGED <<tickers, logs, openSessions, writeLock, history, failedWrites>>
    /\ UNCHANGED mainVars

\* Binance.fetch_tokens, called from the main thread.
Fetch(bound) ==
    /\ Len(history) < bound
    /\ tokens' = fetch_tokens(Universe)
    /\ history' = Append(history, FetchEvent)
    /\ UNCHANGED <<tickers, logs, openSessions, writeLock, pc, msg, last, result, failedWrites>>
    /\ UNCHANGED mainVars

\* ------------------------------------------------------- specifications
\* Spec: the callbacks of the two feeds and the main thread interleave at
\* statement granularity; frames may be malformed; the store may fail.
ReceiveFrame == \E t \in Feeds : \E m \in Msgs(t) : Receive(t, m, SomeFrame, MaxEvents)
DoLookup == \E t \in Feeds : Lookup(t)
DoCreate == \E t \in Feeds : Create(t)
DoCompare == \E t \in Feeds : Compare(t)
DoInsert == \E t \in Feeds : \E p \in FaultPatterns : Insert(t, p)
DoSave == \E t \in Feeds : Save(t)
FetchTokens == Fetch(MaxEvents)

Next ==
    \/ ReceiveFrame
    \/ DoLookup
    \/ DoCreate
    \/ DoCompare
    \/ DoInsert
    \/ DoSave
    \/ FetchTokens

Spec == Init /\ [][Next]_vars

\* SeqSpec: well-formed frames handled one at a time (a frame is delivered
\* only when no invocation is in progress), every write accepted by the store.
SeqReceiveFrame == \E t \in Feeds : \E m \in SeqMsgs(t) : AllIdle /\ Receive(t, m, FrameEvent(t, m), MaxSeqEvents)
SeqInsert == \E t \in Feeds : Insert(t, NoFault)
SeqFetchTokens == AllIdle /\ Fetch(MaxSeqEvents)

SeqNext ==
    \/ SeqReceiveFrame
    \/ DoLookup
    \/ DoCreate
    \/ DoCompare
    \/ SeqInsert
    \/ DoSave
    \/ SeqFetchTokens

SeqSpec == Init /\ [][SeqNext]_vars

\* ------------------------------------------------ main() and direct calls
SDT == <<"S", "D", "T">>
USDTBTC == <<"U", "S", "D", "T", "B", "T", "C">>

\* The instrument lists get_all_tickers may return.
InstrumentLists ==
    {Universe, {ETHUSDT, USDTBTC, SDT, USDT}, {USDTBTC, ETHBTC}, {}}

Quantities == {1, 2}
Prices == {1000}

StoreResult(r) ==
    /\ tickers' = r.db.tickers
    /\ logs' = r.db.logs
    /\ openSessions' = r.db.open
    /\ writeLock' = r.db.lock

\* main.py:13  binance.fetch_tokens()
MainFetchTokens ==
    /\ mainPc = "fetch_tokens"
    /\ \E u \in InstrumentLists :
          /\ tokens' = fetch_tokens(u)
          /\ callResult' = CallEnded("fetch_tokens", <<u>>, "none", None)
    /\ mainPc' = "start_websocket_manager"
    /\ UNCHANGED <<tickers, logs, openSessions, writeLock, wsStarted, subscriptions,
                   orders, slackCalls, calls, queryResult>>
    /\ UNCHANGED handlerVars

\* Binance.start_websocket_manager, from main() (as main.py:19) or not.
StartManager(op, next) ==
    \E o1 \in SlackOutcomes : \E o2 \in SlackOutcomes :
        LET r == start_websocket_manager(wsStarted, DB, slackCalls, o1, o2)
        IN /\ wsStarted' = r.started
           /\ StoreResult(r)
           /\ slackCalls' = r.slack
           /\ callResult' = CallEnded(op, <<wsStarted>>, r.exc, None)
           /\ mainPc' = IF op # "main" THEN mainPc
                        ELSE IF r.exc = "none" THEN next ELSE "terminated"
           /\ UNCHANGED <<tokens, subscriptions, orders, queryResult>>
           /\ UNCHANGED handlerVars

MainStartManager ==
    /\ mainPc = "start_websocket_manager"
    /\ StartManager("main", "start_futures_ticker_socket")
    /\ UNCHANGED calls

\* main.py:24  binance.start_futures_ticker_socket(["BTCUSDT", "ETHUSDT"])
MainSubscribe ==
    /\ mainPc = "start_futures_ticker_socket"
    /\ subscriptions' = subscriptions \cup Streams({BTCUSDT, ETHUSDT})
    /\ callResult' = CallEnded("start_futures_ticker_socket", << >>, "none", None)
    /\ mainPc' = "limit_buy_order"
    /\ UNCHANGED <<tokens, tickers, logs, openSessions, writeLock, wsStarted, orders,
                   slackCalls, calls, queryResult>>
    /\ UNCHANGED handlerVars

\* FuturesClient.limit_buy_order, from main() (as main.py:27) or not.
Order(op, symbol, quantity, price, next) ==
    \E outcome \in OrderOutcomes :
        LET r == limit_buy_order(FuturesClientAttrs, symbol, quantity, price, outcome)
        IN /\ orders' = orders \o r.requests
           /\ callResult' = CallEnded(op, <<symbol, quantity, price, outcome>>, r.exc, r.value)
           /\ mainPc' = IF op # "main" THEN mainPc
                        ELSE IF r.exc = "none" THEN next ELSE "terminated"
           /\ UNCHANGED <<tokens, tickers, logs, openSessions, writeLock, wsStarted,
                          subscriptions, slackCalls, queryResult>>
           /\ UNCHANGED handlerVars

\* main.py:27-35: the order, then the loop of sleep and print, which changes
\* nothing: a main() in "idle_loop" stays there.
MainOrder ==
    /\ mainPc = "limit_buy_order"
    /\ Order("main", BTCUSDT, 1, 1000, "idle_loop")
    /\ UNCHANGED calls

\* The same methods called on the Binance object besides main()'s own calls.
CallStart ==
    /\ calls < MaxCalls
    /\ calls' = calls + 1
    /\ StartManager("start_websocket_manager", mainPc)

CallOrder ==
    /\ calls < MaxCalls
    /\ calls' = calls + 1
    /\ \E symbol \in {BTCUSDT, ETHUSDT} : \E quantity \in Quantities : \E price \in Prices :
          Order("limit_buy_order", symbol, quantity, price, mainPc)

\* binance.logger.log(level, text)
CallLog ==
    /\ calls < MaxCalls
    /\ calls' = calls + 1
    /\ \E levelname \in Levels : \E outcome \in SlackOutcomes :
          LET r == BinanceLogger(DB, slackCalls, levelname, "tick", outcome)
          IN /\ StoreResult(r)
             /\ slackCalls' = r.slack
             /\ callResult' = CallEnded("log", <<levelname, "tick", outcome>>, r.exc, None)
    /\ UNCHANGED <<tokens, mainPc, wsStarted, subscriptions, orders, queryResult>>
    /\ UNCHANGED handlerVars

MainNext ==
    \/ MainFetchTokens
    \/ MainStartManager
    \/ MainSubscribe
    \/ MainOrder
    \/ CallStart
    \/ CallOrder
    \/ CallLog

\* ------------------------------------------------- the store, one at a time
QueryEvent == [kind |-> "query"]

\* Frames whose event times go backwards and repeat, and another symbol.
StoreMsgs ==
    {Payload(BTCUSDT, P10011, 2000), Payload(BTCUSDT, P10000, 1000),
     Payload(BTCUSDT, P10150, 1000), Payload(ETHUSDT, P10000, 1000)}
QueryRanges == {<<1000, 2000>>, <<2000, 2000>>}

\* SQLiteDB.query_ticker called between two frames.
QueryTicker ==
    /\ AllIdle
    /\ Len(history) < MaxStoreEvents
    /\ history' = Append(history, QueryEvent)
    /\ \E symbol \in {BTCUSDT} : \E range \in QueryRanges :
       \E outcome \in QueryOutcomes :
          LET r == query_ticker(DB, symbol, range[1], range[2], outcome)
          IN /\ StoreResult(r)
             /\ queryResult' = Some([symbol |-> symbol, start |-> range[1],
                                     end |-> range[2], exc |-> r.exc,
                                     value |-> r.value])
    /\ UNCHANGED <<tokens, pc, msg, last, result, failedWrites>>
    /\ UNCHANGED <<mainPc, wsStarted, subscriptions, orders, slackCalls, callResult, calls>>

StoreReceiveFrame ==
    /\ AllIdle
    /\ \E m \in StoreMsgs : Receive("spot", m, SomeFrame, MaxStoreEvents)

\* StoreSpec: frames of one feed handled one at a time, the store may fail
\* any write, and the table is queried between frames.
StoreNext ==
    \/ StoreReceiveFrame
    \/ DoLookup
    \/ DoCreate
    \/ DoCompare
    \/ DoInsert
    \/ DoSave
    \/ QueryTicker

StoreSpec == Init /\ [][StoreNext]_vars

\* MainSpec: main() runs, and the methods it uses are also called directly.
MainSpec == Init /\ [][MainNext]_vars

\* ================================================================== claims
\* The payload of a recorded frame, without the futures envelope.
PayloadOf(ev) == IF ev.feed = "futures" THEN ev.msg.data ELSE ev.msg

\* Index of the last fetch_tokens call in history, 0 when there is none.
LastFetch ==
    LET idx == {i \in 1..Len(history) : history[i].kind = "fetch"}
    IN IF idx = {} THEN 0 ELSE CHOOSE i \in idx : \A j \in idx : j <= i

\* The payloads for symbol s delivered since the registry was last seeded.
FramesSince(s) ==
    LET recent == SubSeq(history, LastFetch + 1, Len(history))
        ForSymbol(ev) == PayloadOf(ev).s = s
        evs == SelectSeq(recent, ForSymbol)
    IN [i \in 1..Len(evs) |-> PayloadOf(evs[i])]

\* No frame for s was delivered before the last fetch_tokens call.
FreshlySeeded(s) ==
    \A i \in 1..LastFetch : history[i].kind = "frame" => PayloadOf(history[i]).s # s

RowsOf(s) == SelectSeq(tickers, LAMBDA row : row.symbol = s)
Closes(rows) == [i \in 1..Len(rows) |-> rows[i].close]
WireCloses(frames) == [i \in 1..Len(frames) |-> frames[i].c]

\* The rule of the specification on prices in hundredths: the stored close is
\* absent, or the new close is above 100.1% or below 99.9% of it (a stored
\* close of 0 admits no quotient, and the test is then not true).
IsSignificant(stored, new) ==
    \/ IsNone(stored)
    \/ /\ Val(stored) # 0
       /\ \/ 1000 * new > 1001 * Val(stored)
          \/ 1000 * new < 999 * Val(stored)

\* C1, step by step: the comparison sends the invocation on to insert_ticker
\* exactly when the frame is significant against the stored close, the insert
\* appends exactly one row carrying the frame's symbol and close, and no other
\* step changes the table.
C1_Step ==
    /\ \A t \in Feeds :
        /\ (pc[t] = "compare" /\ pc'[t] # "compare") =>
              (pc'[t] = "insert" <=>
                  IsSignificant(tokens[msg[t].s].price_info.close, Val(float(msg[t].c))))
        /\ (pc[t] = "insert" /\ pc'[t] # "insert") =>
              /\ Len(tickers') = Len(tickers) + 1
              /\ SubSeq(tickers', 1, Len(tickers)) = tickers
              /\ tickers'[Len(tickers')].symbol = msg[t].s
              /\ tickers'[Len(tickers')].close = Val(float(msg[t].c))
    /\ (\A t \in Feeds : pc[t] = "insert" => pc'[t] = "insert") => tickers' = tickers

\* C1, the scenario: 100.00, 100.05, 101.50 delivered in that order to a
\* freshly seeded BTCUSDT leave exactly the rows 100.00 and 101.50.
C1_Scenario ==
    (/\ AllIdle
     /\ FreshlySeeded(BTCUSDT)
     /\ WireCloses(FramesSince(BTCUSDT)) = <<P10000, P10005, P10150>>)
        => Closes(RowsOf(BTCUSDT)) = <<10000, 10150>>

\* C1: with frames delivered one at a time, a frame appends exactly one row
\* to tickers if the stored close is None or abs(new / stored - 1) > 0.001
\* and no row otherwise; 100.00, 100.05, 101.50 yield two rows.
C1_RowIffSignificant == [][C1_Step]_vars /\ []C1_Scenario

C1_Witness ==
    /\ AllIdle
    /\ WireCloses(FramesSince(BTCUSDT)) = <<P10000, P10005, P10150>>
    /\ Closes(RowsOf(BTCUSDT)) = <<10000, 10150>>

\* The snapshot save_ticker builds from a frame, as the claim reads it.
SnapshotOf(frame) ==
    [open |-> float(frame.o), close |-> float(frame.c), high |-> float(frame.h),
     low |-> float(frame.l), volume |-> float(frame.v),
     quote_asset_volume |-> float(frame.q), timestamp |-> Some(frame.E)]

RECURSIVE LastApplied(_, _)
\* The snapshot after the frames of a symbol, when only the frames that are
\* significant against the snapshot of the moment are applied.
LastApplied(frames, snapshot) ==
    IF frames = << >> THEN snapshot
    ELSE LastApplied(Tail(frames),
            IF IsSignificant(snapshot.close, Val(float(Head(frames).c)))
            THEN SnapshotOf(Head(frames)) ELSE snapshot)

FrameSymbols == {BTCUSDT, ETHUSDT, ETHBTC}

C3_Serialized ==
    \A t1, t2 \in Feeds :
        (/\ t1 # t2
         /\ pc[t1] \in {"insert", "save"}
         /\ pc[t2] \in {"insert", "save"}
         /\ msg[t1].s = msg[t2].s)
            => last[t1] # last[t2]

\* C4: a frame that meets a stored close of exactly 0 raises no division
\* fault: it is treated as significant and a WARNING is logged.
C4_ZeroCloseSignificant ==
    [][\A t \in Feeds :
          (/\ pc[t] = "compare"
           /\ pc'[t] # "compare"
           /\ "c" \in DOMAIN msg[t]
           /\ msg[t].s \in DOMAIN tokens
           /\ tokens[msg[t].s].price_info.close = Some(0))
              => /\ pc'[t] = "insert"
                 /\ result'[t] # "ZeroDivisionError"
                 /\ \E i \in (Len(logs) + 1)..Len(logs') : logs'[i].level = "WARNING"]_vars

\* The frame callback t is working on lacks a field the handler reads.
IsMalformed(t) ==
    IF pc[t] = "lookup" THEN msg[t] \in MalformedMsgs(t)
    ELSE ~(RequiredKeys \subseteq DOMAIN msg[t])

\* C6: a malformed frame is dropped without raising out of the handler, with
\* exactly one WARNING log record and no change to registry or table.
C6_MalformedDropped ==
    [][\A t \in Feeds :
          (pc[t] # "idle" /\ pc'[t] = "idle" /\ IsMalformed(t))
              => /\ result'[t] = "returned"
                 /\ Len(logs') = Len(logs) + 1
                 /\ logs'[Len(logs')].level = "WARNING"
                 /\ tokens' = tokens
                 /\ tickers' = tickers]_vars

\* C7: when the tickers write fails with an integrity error, the row is not
\* stored, exactly one ERROR record is added to logs and no exception
\* reaches the caller of insert_ticker: ticker_handler goes on to save_ticker.
C7_IntegrityHandled ==
    [][\A t \in Feeds : \A p \in FaultPatterns :
          (/\ pc[t] = "insert"
           /\ TickerError(msg[t]) = "none"
           /\ p.n >= 1
           /\ Insert(t, p))
              => /\ tickers' = tickers
                 /\ Len(logs') = Len(logs) + 1
                 /\ logs'[Len(logs')].level = "ERROR"
                 /\ pc'[t] = "save"]_vars

\* C8: after a failed tickers write for a symbol A (whatever the failure), a
\* significant frame for another symbol B whose own write the store accepts
\* still appends its row.
C8_FailureIsolation ==
    [][\A t \in Feeds :
          (/\ pc[t] = "insert"
           /\ TickerError(msg[t]) = "none"
           /\ \E f \in failedWrites : f.symbol # msg[t].s
           /\ Insert(t, NoFault))
              => /\ Len(tickers') = Len(tickers) + 1
                 /\ SubSeq(tickers', 1, Len(tickers)) = tickers
                 /\ tickers'[Len(tickers')].symbol = msg[t].s]_vars

\* A row for another symbol was appended after a write had failed.
C8_Witness ==
    \E f \in failedWrites :
        /\ Len(tickers) > f.rows
        /\ tickers[f.rows + 1].symbol # f.symbol

\* C9: the registry only grows: no entry is removed, and no entry that holds
\* a snapshot is replaced by an empty record.
C9_RegistryOnlyGrows ==
    [][\A s \in DOMAIN tokens :
          /\ s \in DOMAIN tokens'
          /\ tokens[s].price_info # EmptyPriceInfo
                => tokens'[s].price_info # EmptyPriceInfo]_vars

\* The stored close against which ticker_handler compares a frame of `feed`
\* for `symbol` (exchange.py:157 reads the same entry for both feeds).
Baseline(toks, feed, symbol) ==
    IF symbol \in DOMAIN toks THEN LastClosePrice(toks, symbol) ELSE None

\* C10: a frame of one feed never changes the stored close against which the
\* other feed's frames for the same symbol are compared.
C10_IndependentFeeds ==
    [][\A t \in Feeds :
          (pc[t] = "save" /\ pc'[t] # "save")
              => Baseline(tokens', OtherFeed(t), msg[t].s)
                    = Baseline(tokens, OtherFeed(t), msg[t].s)]_vars

\* The stored timestamp of a symbol in registry toks, None when there is none.
StoredTimestamp(toks, s) ==
    IF s \in DOMAIN toks THEN toks[s].price_info.timestamp ELSE None

\* C11 as stated: for each symbol the stored snapshot timestamp never
\* decreases from one step to the next, overlapping invocations included.
C11_TimestampMonotonic ==
    [][\A s \in FrameSymbols :
          (~IsNone(StoredTimestamp(tokens, s)) /\ ~IsNone(StoredTimestamp(tokens', s)))
              => Val(StoredTimestamp(tokens', s)) >= Val(StoredTimestamp(tokens, s))]_vars

\* C11 amended: save_ticker sets the stored timestamp to the event time of
\* the frame it applies, earlier than the stored one or not, and the stored
\* timestamp changes to another time in no other way: it decreases exactly
\* when a frame with an earlier event time is applied.
C11_TimestampFollowsFrame ==
    [][/\ \A t \in Feeds :
            (pc[t] = "save" /\ pc'[t] = "idle" /\ result'[t] = "returned")
                => StoredTimestamp(tokens', msg[t].s) = Some(msg[t].E)
       /\ \A s \in FrameSymbols :
            (/\ ~IsNone(StoredTimestamp(tokens', s))
             /\ StoredTimestamp(tokens', s) # StoredTimestamp(tokens, s))
                => \E t \in Feeds : /\ pc[t] = "save"
                                    /\ pc'[t] = "idle"
                                    /\ msg[t].s = s
                                    /\ StoredTimestamp(tokens', s) = Some(msg[t].E)]_vars

\* A frame with an earlier event time was applied after a later one: the
\* table holds both rows in that order and the stored timestamp went back.
C11_Witness ==
    /\ Len(RowsOf(BTCUSDT)) = 2
    /\ RowsOf(BTCUSDT)[1].timestamp > RowsOf(BTCUSDT)[2].timestamp
    /\ StoredTimestamp(tokens, BTCUSDT) = Some(RowsOf(BTCUSDT)[2].timestamp)

\* C12: once main() has registered its subscription it is at the order or in
\* its idle loop, where it stays: no step ends main() before the loop.
C12_MainReachesIdleLoop ==
    subscriptions # {} => mainPc \in {"limit_buy_order", "idle_loop"}

\* A step that is one call of limit_buy_order, from main() or not.
OrderStep ==
    \/ mainPc = "limit_buy_order" /\ mainPc' # mainPc
    \/ calls' # calls /\ callResult'.op = "limit_buy_order"

\* C13: every call of limit_buy_order(symbol, quantity, price) sends exactly
\* one create-order request, BUY / LIMIT / GTC with the arguments given, and
\* returns the order result; a failure of the exchange call is raised.
C13_OneOrderPerCall ==
    [][OrderStep =>
          LET a == callResult'.args
          IN /\ orders' = Append(orders, [symbol |-> a[1], side |-> "BUY",
                                          type |-> "LIMIT", timeInForce |-> "GTC",
                                          quantity |-> a[2], price |-> a[3]])
             /\ a[4] = "ok" => callResult'.exc = "none" /\ ~IsNone(callResult'.value)
             /\ a[4] # "ok" => callResult'.exc = a[4]]_vars

\* A step that is one call of start_websocket_manager, from main() or not.
StartStep ==
    \/ mainPc = "start_websocket_manager" /\ mainPc' # mainPc
    \/ calls' # calls /\ callResult'.op = "start_websocket_manager"

WarningRows == {i \in DOMAIN logs : logs[i] = [level |-> "WARNING", msg |-> AlreadyStarted]}

\* C14: a call of start_websocket_manager on a manager already started does
\* not raise: it returns normally, the next row of the logs table is the
\* WARNING that the manager was already started, and the manager stays
\* started with its subscriptions as they were, however often this repeats.
C14_RepeatedStartIsHarmless ==
    [][(StartStep /\ wsStarted) =>
          /\ callResult'.exc = "none"
          /\ Len(logs') > Len(logs)
          /\ SubSeq(logs', 1, Len(logs)) = logs
          /\ logs'[Len(logs) + 1] = [level |-> "WARNING", msg |-> AlreadyStarted]
          /\ wsStarted' = wsStarted
          /\ subscriptions' = subscriptions
          /\ tokens' = tokens /\ orders' = orders]_vars

\* The manager, started by main() and subscribed, was started twice more.
C14_Witness ==
    /\ wsStarted
    /\ subscriptions # {}
    /\ Cardinality(WarningRows) = 2
    /\ callResult.op = "start_websocket_manager"
    /\ callResult.exc = "none"

\* A step that is one record logged through the BinanceLogger.
LogStep == calls' # calls /\ callResult'.op = "log"

\* C18: every record logged through the BinanceLogger adds its row to the
\* logs table whatever its level, is posted to Slack exactly when its level
\* is INFO or higher, and the call returns normally with the row in place
\* also when the post raises a Slack API error.
C18_LogRowAlwaysSlackFromInfo ==
    [][LogStep =>
          LET levelname == callResult'.args[1]
              text == callResult'.args[2]
              outcome == callResult'.args[3]
          IN /\ logs' = Append(logs, [level |-> levelname, msg |-> text])
             /\ IF levelname \in {"INFO", "WARNING", "ERROR", "CRITICAL"}
                THEN slackCalls' = Append(slackCalls,
                                          [level |-> levelname, text |-> text,
                                           delivered |-> outcome # "SlackApiError"])
                ELSE slackCalls' = slackCalls
             /\ callResult'.exc = "none"]_vars

\* A DEBUG record, not posted, then an ERROR record whose post failed: both
\* rows are in the table and the call returned.
C18_Witness ==
    /\ callResult = CallEnded("log", <<"ERROR", "tick", "SlackApiError">>, "none", None)
    /\ logs = <<[level |-> "DEBUG", msg |-> "tick"], [level |-> "ERROR", msg |-> "tick"]>>
    /\ slackCalls = <<[level |-> "ERROR", text |-> "tick", delivered |-> FALSE]>>

\* The step of main() that is its call of fetch_tokens.
FetchStep == mainPc = "fetch_tokens" /\ mainPc' # mainPc

EndsWithUSDT(sym) ==
    /\ Len(sym) >= 4
    /\ sym[Len(sym) - 3] = "U" /\ sym[Len(sym) - 2] = "S"
    /\ sym[Len(sym) - 1] = "D" /\ sym[Len(sym)] = "T"

\* A record with its symbol and nothing else: leverage 0, not isolated, no
\* price and no position information.
IsEmptyRecord(token, sym) ==
    /\ token.symbol = sym
    /\ token.leverage = 0 /\ ~token.isolated
    /\ \A f \in DOMAIN token.price_info : IsNone(token.price_info[f])
    /\ \A info \in {token.long_info, token.short_info} :
          IsNone(info.target) /\ IsNone(info.amount) /\ ~info.target_hit

\* C17: after fetch_tokens the keys of the registry are exactly the
\* instruments of the exchange's list whose last four characters are "USDT",
\* and every entry is an empty record whose symbol is its key.
C17_RegistryIsUsdtInstruments ==
    [][FetchStep =>
          LET listed == callResult'.args[1]
          IN /\ DOMAIN tokens' = {sym \in listed : EndsWithUSDT(sym)}
             /\ \A sym \in DOMAIN tokens' : IsEmptyRecord(tokens'[sym], sym)]_vars

\* fetch_tokens has run on a list holding a USDT instrument, the four
\* characters "USDT" alone, a shorter name and a name that starts with USDT.
C17_Witness ==
    /\ callResult.op = "fetch_tokens"
    /\ callResult.args = <<{ETHUSDT, USDTBTC, SDT, USDT}>>
    /\ DOMAIN tokens = {ETHUSDT, USDT}

\* C15: every session obtained from session() has been closed, and the write
\* lock released, when the operation that opened it is over: after a normal
\* exit, after query_ticker returned from inside the block, after an
\* integrity error and after any other exception; and a write has then left
\* its table as it was or longer by the one complete row.
C15_SessionsReleased ==
    /\ openSessions = 0
    /\ ~writeLock
    /\ \A f \in failedWrites : f.rows <= Len(tickers)
    /\ \A i \in DOMAIN tickers : DOMAIN tickers[i] = DOMAIN Ticker(Payload(BTCUSDT, P0, 1000))

\* A row was stored, a later write failed on an integrity error that was
\* logged, and a query then returned rows from inside its with block.
C15_Witness ==
    /\ failedWrites # {}
    /\ logs # << >>
    /\ ~IsNone(queryResult)
    /\ Val(queryResult).exc = "none"
    /\ Val(queryResult).value # Some(<< >>)

\* A step that is one call of query_ticker.
QueryStep == Len(history') > Len(history) /\ history'[Len(history')] = QueryEvent

\* The rows of the table that a query for (symbol, start, end) must return.
Matches(row, symbol, start, end) ==
    row.symbol = symbol /\ row.timestamp >= start /\ row.timestamp <= end

Range(seq) == {seq[i] : i \in DOMAIN seq}

IsAscending(rows) ==
    \A i \in DOMAIN rows : \A j \in DOMAIN rows :
        i < j => rows[i].timestamp <= rows[j].timestamp

\* C16: query_ticker(symbol, start, end) returns exactly the rows of the
\* symbol with start <= timestamp <= end, each as often as the table holds
\* it, as a sequence ordered by timestamp ascending, whatever the order and
\* the repetition of the timestamps in the table.
C16_QueryFilteredAndAscending ==
    [][(QueryStep /\ Val(queryResult').exc = "none") =>
          LET q == Val(queryResult')
              rows == Val(q.value)
          IN /\ \A row \in Range(tickers) \cup Range(rows) :
                   Cardinality({i \in DOMAIN rows : rows[i] = row})
                     = IF Matches(row, q.symbol, q.start, q.end)
                       THEN Cardinality({i \in DOMAIN tickers : tickers[i] = row})
                       ELSE 0
             /\ IsAscending(rows)]_vars

\* The position in the table of the last row of symbol s, 0 when none.
LastRowOf(s) ==
    LET own == {i \in DOMAIN tickers : tickers[i].symbol = s}
    IN IF own = {} THEN 0 ELSE CHOOSE i \in own : \A j \in own : j <= i

\* The writes for s that stored nothing after its last row and whose
\* integrity error session() swallowed, so that ticker_handler went on.
SwallowedSince(s) ==
    {f \in failedWrites : f.symbol = s /\ f.exc = "none" /\ f.rows >= LastRowOf(s)}

\* C20 as stated: between invocations, a symbol's in-memory close is None or
\* the close of the last row the table holds for the symbol, also after an
\* insert that failed on an integrity error.
C20_MemoryMatchesLastRow ==
    AllIdle =>
        \A s \in DOMAIN tokens :
            \/ IsNone(tokens[s].price_info.close)
            \/ /\ LastRowOf(s) > 0
               /\ tokens[s].price_info.close = Some(tickers[LastRowOf(s)].close)

\* C20 amended: between invocations, a symbol's in-memory close is None, or
\* the close of the last row stored for the symbol when no later write for
\* it ended in a swallowed integrity error, or else the close of a frame
\* whose write was so dropped: the memory is then ahead of the table.
C20_MemoryMatchesLastAccepted ==
    AllIdle =>
        \A s \in DOMAIN tokens :
            \/ IsNone(tokens[s].price_info.close)
            \/ IF SwallowedSince(s) = {}
               THEN /\ LastRowOf(s) > 0
                    /\ tokens[s].price_info.close = Some(tickers[LastRowOf(s)].close)
               ELSE tokens[s].price_info.close \in {f.close : f \in SwallowedSince(s)}

\* A row of 100.11 is stored, the write of 101.50 failed on an integrity
\* error that was logged, and the memory holds 101.50.
C20_Witness ==
    /\ AllIdle
    /\ LastRowOf(BTCUSDT) > 0
    /\ tickers[LastRowOf(BTCUSDT)].close = 10011
    /\ SwallowedSince(BTCUSDT) # {}
    /\ BTCUSDT \in DOMAIN tokens
    /\ tokens[BTCUSDT].price_info.close = Some(10150)

\* C19: a frame that ticker_handler judges not significant (a stored close
\* exists, is not 0, and the new close is within 0.1% of it) ends the
\* invocation at the comparison with the tickers table, the logs and the
\* symbol's in-memory record, its price fields and timestamp included,
\* exactly as they were; and the steps before the comparison change neither.
C19_InsignificantFrameChangesNothing ==
    [][\A t \in Feeds :
          /\ (pc[t] \in {"idle", "lookup"} /\ pc'[t] # pc[t])
                => (tokens' = tokens /\ tickers' = tickers)
          /\ (/\ pc[t] = "compare" /\ pc'[t] # pc[t]
              /\ msg[t].s \in DOMAIN tokens
              /\ LastClosePrice(tokens, msg[t].s) # Some(0)
              /\ ~IsSignificant(LastClosePrice(tokens, msg[t].s), Val(float(msg[t].c))))
                => /\ pc'[t] = "idle" /\ result'[t] = "returned"
                   /\ tokens' = tokens /\ tickers' = tickers /\ logs' = logs]_vars

\* 100.11 was stored, then 100.05 arrived and was handled to its end: one
\* row, and the record still that of 100.11 with its timestamp.
C19_Witness ==
    /\ AllIdle
    /\ Len(history) = 2
    /\ history[2] = FrameEvent("futures", Wrap("futures", Payload(BTCUSDT, P10005, 2000)))
    /\ result["futures"] = "returned"
    /\ Closes(RowsOf(BTCUSDT)) = <<10011>>
    /\ BTCUSDT \in DOMAIN tokens
    /\ tokens[BTCUSDT].price_info.close = Some(10011)

\* fetch_tokens was not called after a frame had been delivered.
NotReseeded ==
    \A i \in DOMAIN history :
        history[i].kind = "fetch" => \A j \in 1..i : history[j].kind = "fetch"

\* The change from close c1 to close c2 is above 0.1% of c1, up or down.
BeyondThreshold(c1, c2) ==
    c1 # 0 /\ (1000 * c2 > 1001 * c1 \/ 1000 * c2 < 999 * c1)

\* C21: with frames handled one at a time, every write stored and no
\* re-seeding, any two consecutive rows of a symbol have closes more than
\* 0.1% apart; and once a frame has been handled, its close is the last
\* stored one or lies within 0.1% of it (or the last stored close is 0), so
\* a drift of small steps is stored as soon as it adds up to more than 0.1%
\* from the last stored row.
C21_ConsecutiveRowsBeyondThreshold ==
    NotReseeded =>
        \A s \in FrameSymbols :
            LET closes == Closes(RowsOf(s))
                frames == FramesSince(s)
            IN /\ \A i \in 1..(Len(closes) - 1) : BeyondThreshold(closes[i], closes[i + 1])
               /\ (AllIdle /\ frames # << >>) =>
                     /\ closes # << >>
                     /\ LET new == Val(float(frames[Len(frames)].c))
                            stored == closes[Len(closes)]
                        IN new = stored \/ stored = 0 \/ ~BeyondThreshold(stored, new)

\* 100.00 was stored, 100.05 was not, and 100.11, within 0.1% of 100.05 but
\* not of 100.00, was stored.
C21_Witness ==
    /\ AllIdle
    /\ NotReseeded
    /\ WireCloses(FramesSince(BTCUSDT)) = <<P10000, P10005, P10011>>
    /\ Closes(RowsOf(BTCUSDT)) = <<10000, 10011>>

\* C22: whatever number of consecutive integrity failures the store answers
\* the tickers write and the logs writes of the error path with, the
\* recursion of session() and log() comes back: insert_ticker returns to
\* ticker_handler, which goes on, and every session opened on the way is
\* closed.
C22_ErrorPathReturns ==
    [][\A t \in Feeds : \A p \in FaultPatterns :
          (/\ pc[t] = "insert"
           /\ TickerError(msg[t]) = "none"
           /\ p.then = "none"
           /\ Insert(t, p))
              => /\ pc'[t] = "save"
                 /\ result'[t] # "RecursionError"
                 /\ openSessions' = 0]_vars

====
